---- MODULE Spec2Model ----
(***************************************************************************)
(* js-redis-key-store (src/src/index.js): a store of botmatic/external id  *)
(* pairs per integration, kept in a Redis database as two entries          *)
(*     <integrationId>:b:<botmaticId>  ->  externalId                      *)
(*     <integrationId>:e:<externalId>  ->  botmaticId                      *)
(*                                                                         *)
(* Strings are sequences of one-character strings, so that template        *)
(* literals are concatenations and the KEYS pattern can be matched         *)
(* character by character.  The Redis database is the variable storage, a  *)
(* function from the keys present to their values.  Every exported method  *)
(* is one invocation action followed by one action per Redis reply; the    *)
(* code that runs between two awaits runs in the reply's action.           *)
(***************************************************************************)
EXTENDS Integers, Sequences, FiniteSets, TLC

(***************************************************************************)
(* Bounds of the model.                                                    *)
(***************************************************************************)
\* Number of method invocations in one behaviour of a single caller.
MaxCalls == 3
\* Number of method invocations in one behaviour of concurrent callers.
MaxConcCalls == 2
\* Number of Redis commands that answer with an error in one behaviour.
MaxFail == 1

\* The callers of the store; one store instance is shared by all of them.
Clients == {"c1", "c2"}

\* Integration ids and botmatic/external ids the callers pass.  "a:b" is
\* the integration id "a" followed by the delimiter and more text, and
\* "b:a" is an id that starts like a direction tag.
Scopes == {<<"a">>, <<"a", ":", "b">>}
Ids == {<<"a">>, <<"b", ":", "a">>}
\* The external ids concurrent callers pass.
ConcExtIds == {<<"a">>}
FairScopes == {<<"a">>}
FairIds == {<<"a">>}
\* Arguments of callers that break the "non-empty string" precondition.
EmptyScopes == {<< >>, <<"a">>}
EmptyIds == {<< >>, <<"a">>}

(***************************************************************************)
(* JavaScript values that are no id.                                       *)
(***************************************************************************)
\* Redis replies nil to GET of a missing key: node_redis hands over null.
Null == <<"null">>
\* The value argument of a node_redis callback that got an error.
Undefined == <<"undefined">>
\* The reply of a successful SET.
OK == <<"OK">>

\* A string in a boolean context: only the empty string is falsy.
Truthy(str) == Len(str) > 0

(***************************************************************************)
(* Key utils                                                               *)
(***************************************************************************)
buildBotmaticKey(integrationId, botmaticId) ==
    integrationId \o <<":", "b", ":">> \o botmaticId

buildExternalKey(integrationId, externalId) ==
    integrationId \o <<":", "e", ":">> \o externalId

\* The pattern _deleteAllIds hands to KEYS.
allKeysPattern(integrationId) == integrationId \o <<":", "*">>

(***************************************************************************)
(* The Redis commands the store issues.  A reply is the pair (err, value)  *)
(* the node_redis callback receives; a command that answers with an error  *)
(* leaves the database as it was.                                          *)
(***************************************************************************)
Reply(err, value) == [err |-> err, value |-> value]
\* The callback has not been invoked yet: no err and no value, and unlike a
\* reply still pending.
NoReply == [err |-> FALSE, value |-> Undefined, pending |-> TRUE]

\* Redis glob matching of KEYS, for the wildcards * and ? (the alphabet of
\* the model has no [ or \).
RECURSIVE GlobMatch(_, _)
GlobMatch(pattern, str) ==
    IF pattern = << >> THEN str = << >>
    ELSE IF Head(pattern) = "*"
         THEN \/ GlobMatch(Tail(pattern), str)
              \/ str # << >> /\ GlobMatch(pattern, Tail(str))
    ELSE IF str = << >> THEN FALSE
    ELSE IF Head(pattern) = "?" THEN GlobMatch(Tail(pattern), Tail(str))
    ELSE Head(pattern) = Head(str) /\ GlobMatch(Tail(pattern), Tail(str))

\* Mutant: SETNX in place of SET, a stored value is kept.
RedisSetNX(db, key, value) == IF key \in DOMAIN db THEN db ELSE (key :> value) @@ db

\* Mutant: APPEND in place of SET, a stored value grows.
RedisAppend(db, key, value) ==
    (key :> (IF key \in DOMAIN db THEN db[key] \o value ELSE value)) @@ db
RedisSet(db, key, value) == (key :> value) @@ db
RedisGet(db, key) == IF key \in DOMAIN db THEN db[key] ELSE Null
RedisDel(db, keys) == [k \in DOMAIN db \ keys |-> db[k]]
RedisDelCount(db, keys) == Cardinality(DOMAIN db \cap keys)
RedisKeys(db, pattern) == {k \in DOMAIN db : GlobMatch(pattern, k)}

(***************************************************************************)
(* Internal functions                                                      *)
(***************************************************************************)
\* Mutant: _saveId resolves to value !== null.
_saveIdNotNull(reply) == reply.value # Null

\* _saveId resolves to value === "OK".
_saveId(reply) == reply.value = OK

\* _getId resolves to the value of the callback, whatever it is.
_getId(reply) == reply.value

\* Mutant: _delId resolves to value !== 0; undefined !== 0 is true.
_delIdNotZero(reply) == IF reply.err THEN TRUE ELSE reply.value # 0

\* Mutant: a delete that removed nothing counts as done.
_delIdNonNegative(reply) == IF reply.err THEN FALSE ELSE reply.value >= 0

\* _delId resolves to value > 0; undefined > 0 is false.
_delId(reply) == IF reply.err THEN FALSE ELSE reply.value > 0

\* values.reduce((acc, value) => acc === true && value === true, true)
RECURSIVE reduceAllTrue(_, _)
reduceAllTrue(values, acc) ==
    IF values = << >> THEN acc
    ELSE reduceAllTrue(Tail(values), acc = TRUE /\ Head(values) = TRUE)

\* Mutants: one true value is enough; only the last value counts.
_allPromisesTrueOr(promises) == \E i \in 1..Len(promises) : promises[i] = TRUE
_allPromisesTrueLast(promises) == promises[Len(promises)] = TRUE

_allPromisesTrue(promises) == reduceAllTrue(promises, TRUE)

(***************************************************************************)
(* State.                                                                  *)
(***************************************************************************)
VARIABLES
    storage,   \* the Redis database: key -> value, for the keys present
    call,      \* call[c]: the method client c is in, with its locals
    writes,    \* the last two completed saveIds/deleteIds/deleteAllIds
    ncalls,    \* methods invoked so far
    nfail      \* Redis commands that answered with an error so far

vars == <<storage, call, writes, ncalls, nfail>>

\* A client that is in no method.
IdleCall ==
    [op |-> "none", pc |-> "idle",
     integrationId |-> << >>, botmaticId |-> << >>, extId |-> << >>,
     botmaticKey |-> << >>, externalKey |-> << >>,
     reply1 |-> NoReply, reply2 |-> NoReply,
     keys |-> {}, ret |-> Undefined,
     pre |-> << >>]

Init ==
    /\ storage = << >>
    /\ call = [c \in Clients |-> IdleCall]
    /\ writes = << >>
    /\ ncalls = 0
    /\ nfail = 0


\* The locals of a method that has just been entered.
NewCall(op, pc, integrationId, botmaticId, extId) ==
    [IdleCall EXCEPT !.op = op, !.pc = pc,
                     !.integrationId = integrationId,
                     !.botmaticId = botmaticId, !.extId = extId,
                     !.pre = storage]

\* A client can enter a method when it is in none.
CanInvoke(c) == call[c].pc \in {"idle", "done"}

\* The entry of the log of completed writes for a call that has returned.
WriteEntry(done) ==
    [op |-> done.op, integrationId |-> done.integrationId,
     botmaticId |-> done.botmaticId, extId |-> done.extId, ret |-> done.ret]

\* The log of completed writes once `done` has returned: the newest entry
\* last, and no more than two entries.
Logged(done) ==
    IF writes = << >> THEN <<WriteEntry(done)>>
    ELSE <<writes[Len(writes)], WriteEntry(done)>>

\* A Redis command answers: without error, or with one while errors remain.
Answers(err) == err = FALSE \/ nfail < MaxFail
CountFail(err) == nfail' = IF err THEN nfail + 1 ELSE nfail

(***************************************************************************)
(* saveIds                                                                 *)
(***************************************************************************)
\* _saveIds up to its first await: the keys are built and tested; the
\* else branch returns false at once.
saveIds(c, integrationId, botmaticId, extId) ==
    /\ CanInvoke(c)
    /\ LET botmaticKey == buildBotmaticKey(integrationId, botmaticId)
           externalKey == buildExternalKey(integrationId, extId)
           entered == [NewCall("saveIds", "set1", integrationId, botmaticId, extId)
                          EXCEPT !.botmaticKey = botmaticKey,
                                 !.externalKey = externalKey]
       IN  IF Truthy(botmaticKey) /\ Truthy(externalKey)
           THEN /\ call' = [call EXCEPT ![c] = entered]
                /\ writes' = writes
           ELSE LET done == [entered EXCEPT !.pc = "done", !.ret = FALSE]
                IN  /\ call' = [call EXCEPT ![c] = done]
                    /\ writes' = Logged(done)
    /\ ncalls' = ncalls + 1
    /\ UNCHANGED <<storage, nfail>>

\* The arguments of the two sets: await _saveId(storage, botmaticKey, extId)
\* and await _saveId(storage, externalKey, botmaticId).
\* Mutant: the first set writes the entry of the external key.
botmaticEntryReverseFirst(cl) == [key |-> cl.externalKey, id |-> cl.botmaticId]
botmaticEntry(cl) == [key |-> cl.botmaticKey, id |-> cl.extId]
\* Mutant: the second set stores the external id under the external key.
externalEntrySwapped(cl) == [key |-> cl.externalKey, id |-> cl.extId]
externalEntry(cl) == [key |-> cl.externalKey, id |-> cl.botmaticId]

\* The reply to storage.set(botmaticKey, extId).
SaveBotmaticReply(c) ==
    /\ call[c].pc = "set1"
    /\ \E err \in BOOLEAN :
          /\ Answers(err)
          /\ CountFail(err)
          /\ storage' = IF err THEN storage
                        ELSE RedisSet(storage, botmaticEntry(call[c]).key,
                                      botmaticEntry(call[c]).id)
          /\ call' = [call EXCEPT ![c].pc = "set2",
                        ![c].reply1 = IF err THEN Reply(TRUE, Undefined)
                                      ELSE Reply(FALSE, OK)]
    /\ UNCHANGED <<writes, ncalls>>

\* The reply to storage.set(externalKey, botmaticId), and the return.
SaveExternalReply(c) ==
    /\ call[c].pc = "set2"
    /\ \E err \in BOOLEAN :
          /\ Answers(err)
          /\ CountFail(err)
          /\ storage' = IF err THEN storage
                        ELSE RedisSet(storage, externalEntry(call[c]).key,
                                      externalEntry(call[c]).id)
          /\ LET reply2 == IF err THEN Reply(TRUE, Undefined) ELSE Reply(FALSE, OK)
                 promises == <<_saveId(call[c].reply1), _saveId(reply2)>>
                 done == [call[c] EXCEPT !.pc = "done", !.reply2 = reply2,
                                         !.ret = _allPromisesTrue(promises)]
             IN  /\ call' = [call EXCEPT ![c] = done]
                 /\ writes' = Logged(done)
    /\ UNCHANGED ncalls

(***************************************************************************)
(* getBotmaticId, getExtId                                                 *)
(***************************************************************************)
getBotmaticId(c, integrationId, extId) ==
    /\ CanInvoke(c)
    /\ call' = [call EXCEPT ![c] =
                  [NewCall("getBotmaticId", "get", integrationId, << >>, extId)
                      EXCEPT !.externalKey = buildExternalKey(integrationId, extId)]]
    /\ ncalls' = ncalls + 1
    /\ UNCHANGED <<storage, writes, nfail>>

getExtId(c, integrationId, botmaticId) ==
    /\ CanInvoke(c)
    /\ call' = [call EXCEPT ![c] =
                  [NewCall("getExtId", "get", integrationId, botmaticId, << >>)
                      EXCEPT !.botmaticKey = buildBotmaticKey(integrationId, botmaticId)]]
    /\ ncalls' = ncalls + 1
    /\ UNCHANGED <<storage, writes, nfail>>

\* The key a lookup reads.
GetKey(cl) == IF cl.op = "getBotmaticId" THEN cl.externalKey ELSE cl.botmaticKey

\* Mutant: a lookup is answered only while no other caller is in a method.
GetReplyExclusive(c) ==
    /\ call[c].pc = "get"
    /\ \A d \in Clients \ {c} : call[d].pc \in {"idle", "done"}
    /\ \E err \in BOOLEAN :
          /\ Answers(err)
          /\ CountFail(err)
          /\ LET reply1 == IF err THEN Reply(TRUE, Undefined)
                           ELSE Reply(FALSE, RedisGet(storage, GetKey(call[c])))
             IN  call' = [call EXCEPT ![c].pc = "done", ![c].reply1 = reply1,
                                      ![c].ret = _getId(reply1)]
    /\ UNCHANGED <<storage, writes, ncalls>>

\* The reply to storage.get(key), and the return.
GetReply(c) ==
    /\ call[c].pc = "get"
    /\ \E err \in BOOLEAN :
          /\ Answers(err)
          /\ CountFail(err)
          /\ LET reply1 == IF err THEN Reply(TRUE, Undefined)
                           ELSE Reply(FALSE, RedisGet(storage, GetKey(call[c])))
             IN  call' = [call EXCEPT ![c].pc = "done", ![c].reply1 = reply1,
                                      ![c].ret = _getId(reply1)]
    /\ UNCHANGED <<storage, writes, ncalls>>

(***************************************************************************)
(* deleteIds                                                               *)
(***************************************************************************)
deleteIds(c, integrationId, botmaticId, extId) ==
    /\ CanInvoke(c)
    /\ call' = [call EXCEPT ![c] =
                  [NewCall("deleteIds", "del1", integrationId, botmaticId, extId)
                      EXCEPT !.botmaticKey = buildBotmaticKey(integrationId, botmaticId),
                             !.externalKey = buildExternalKey(integrationId, extId)]]
    /\ ncalls' = ncalls + 1
    /\ UNCHANGED <<storage, writes, nfail>>

\* The keys of the two deletes: await _delId(storage, botmaticKey) and
\* await _delId(storage, externalKey).
firstDeleted(cl) == cl.botmaticKey
\* Mutant: the second delete removes the botmatic key once more.
secondDeletedAgain(cl) == cl.botmaticKey
secondDeleted(cl) == cl.externalKey

\* The reply to storage.del(botmaticKey).
DeleteBotmaticReply(c) ==
    /\ call[c].pc = "del1"
    /\ \E err \in BOOLEAN :
          /\ Answers(err)
          /\ CountFail(err)
          /\ storage' = IF err THEN storage
                        ELSE RedisDel(storage, {firstDeleted(call[c])})
          /\ call' = [call EXCEPT ![c].pc = "del2",
                        ![c].reply1 =
                           IF err THEN Reply(TRUE, Undefined)
                           ELSE Reply(FALSE, RedisDelCount(storage, {firstDeleted(call[c])}))]
    /\ UNCHANGED <<writes, ncalls>>

\* The reply to storage.del(externalKey), and the return.
DeleteExternalReply(c) ==
    /\ call[c].pc = "del2"
    /\ \E err \in BOOLEAN :
          /\ Answers(err)
          /\ CountFail(err)
          /\ storage' = IF err THEN storage
                        ELSE RedisDel(storage, {secondDeleted(call[c])})
          /\ LET reply2 == IF err THEN Reply(TRUE, Undefined)
                           ELSE Reply(FALSE, RedisDelCount(storage, {secondDeleted(call[c])}))
                 promises == <<_delId(call[c].reply1), _delId(reply2)>>
                 done == [call[c] EXCEPT !.pc = "done", !.reply2 = reply2,
                                         !.ret = _allPromisesTrue(promises)]
             IN  /\ call' = [call EXCEPT ![c] = done]
                 /\ writes' = Logged(done)
    /\ UNCHANGED ncalls

(***************************************************************************)
(* deleteAllIds                                                            *)
(***************************************************************************)
deleteAllIds(c, integrationId) ==
    /\ CanInvoke(c)
    /\ call' = [call EXCEPT ![c] =
                  NewCall("deleteAllIds", "keys", integrationId, << >>, << >>)]
    /\ ncalls' = ncalls + 1
    /\ UNCHANGED <<storage, writes, nfail>>

\* Mutant: no else branch, a scan that errors resolves nothing.
keysFailedNoElse(cl) == [cl EXCEPT !.pc = "hung", !.reply1 = Reply(TRUE, Undefined)]

\* The else branch of the callback of storage.keys: resolve(false).
keysFailed(cl) ==
    [cl EXCEPT !.pc = "done", !.ret = FALSE, !.reply1 = Reply(TRUE, Undefined)]

\* The reply to storage.keys(`${integrationId}:*`): without error the bulk
\* delete is issued, with an error the method resolves to false.
KeysReply(c) ==
    /\ call[c].pc = "keys"
    /\ \E err \in BOOLEAN :
          /\ Answers(err)
          /\ CountFail(err)
          /\ IF ~err
             THEN /\ call' = [call EXCEPT ![c].pc = "del",
                               ![c].reply1 = Reply(FALSE, Null),
                               ![c].keys = RedisKeys(storage,
                                             allKeysPattern(call[c].integrationId))]
                  /\ writes' = writes
             ELSE LET done == keysFailed(call[c])
                  IN  /\ call' = [call EXCEPT ![c] = done]
                      /\ writes' = Logged(done)
    /\ UNCHANGED <<storage, ncalls>>

\* The keys handed to the bulk delete: storage.del(keys), the reply of KEYS.
\* Mutant: the keys are scanned again when the delete runs.
bulkDeletedRescan(cl) == RedisKeys(storage, allKeysPattern(cl.integrationId))
bulkDeleted(cl) == cl.keys

\* Mutant: the callback of the bulk delete resolves to "no error".
resolveBulkDeleteNoErr(reply) == ~reply.err

\* What the callback of storage.del(keys) resolves to: resolve(true).
resolveBulkDelete(reply) == TRUE

\* The reply to storage.del(keys): DEL of no key at all is an error of
\* Redis; the method resolves to true whatever the reply.
BulkDeleteReply(c) ==
    /\ call[c].pc = "del"
    /\ \E err \in BOOLEAN :
          /\ bulkDeleted(call[c]) = {} => err
          /\ err => bulkDeleted(call[c]) = {} \/ nfail < MaxFail
          /\ nfail' = IF err /\ bulkDeleted(call[c]) # {} THEN nfail + 1 ELSE nfail
          /\ storage' = IF err THEN storage
                        ELSE RedisDel(storage, bulkDeleted(call[c]))
          /\ LET reply2 == IF err THEN Reply(TRUE, Undefined)
                           ELSE Reply(FALSE, RedisDelCount(storage, bulkDeleted(call[c])))
                 done == [call[c] EXCEPT !.pc = "done", !.reply2 = reply2,
                                         !.ret = resolveBulkDelete(reply2)]
             IN  /\ call' = [call EXCEPT ![c] = done]
                 /\ writes' = Logged(done)
    /\ UNCHANGED ncalls

(***************************************************************************)
(* Specifications.                                                         *)
(***************************************************************************)
\* The callback of the Redis command that client c waits for is invoked.
ReplyTo(c) ==
    \/ SaveBotmaticReply(c)
    \/ SaveExternalReply(c)
    \/ GetReply(c)
    \/ DeleteBotmaticReply(c)
    \/ DeleteExternalReply(c)
    \/ KeysReply(c)
    \/ BulkDeleteReply(c)

\* A Redis reply arrives for some client.
Replies == \E c \in Clients : ReplyTo(c)

\* A client calls a method with arguments from the given sets.
Invokes(clients, scopes, ids, extIds, max) ==
    /\ ncalls < max
    /\ \E c \in clients, s \in scopes :
          \/ \E p \in ids, e \in extIds : saveIds(c, s, p, e)
          \/ \E e \in extIds : getBotmaticId(c, s, e)
          \/ \E p \in ids : getExtId(c, s, p)
          \/ \E p \in ids, e \in extIds : deleteIds(c, s, p, e)
          \/ deleteAllIds(c, s)

\* No client is inside a method.
Quiescent == \A c \in Clients : call[c].pc \in {"idle", "done"}

\* Any number of callers use the store at once.
Next == Invokes(Clients, Scopes, Ids, ConcExtIds, MaxConcCalls) \/ Replies
Spec == Init /\ [][Next]_vars

\* One caller awaits each method before the next one is called.
SeqNext == (Quiescent /\ Invokes({"c1"}, Scopes, Ids, Ids, MaxCalls)) \/ Replies
SeqSpec == Init /\ [][SeqNext]_vars

\* One caller, with arguments that may be empty strings.
EmptyNext == (Quiescent /\ Invokes({"c1"}, EmptyScopes, EmptyIds, EmptyIds, MaxCalls)) \/ Replies
EmptySpec == Init /\ [][EmptyNext]_vars

\* Concurrent callers on one pair of one scope; every Redis command that
\* was issued has its callback invoked in the end.
FairNext == Invokes(Clients, FairScopes, FairIds, FairIds, MaxConcCalls) \/ Replies
FairSpec ==
    /\ Init /\ [][FairNext]_vars
    /\ \A c \in Clients : WF_vars(ReplyTo(c))

(***************************************************************************)
(* Vocabulary of the properties.                                           *)
(***************************************************************************)
\* Client c has returned from the method op.
Returned(c, op) == call[c].pc = "done" /\ call[c].op = op

\* No Redis command of the call answered with an error.
NoError(cl) == ~cl.reply1.err /\ ~cl.reply2.err

\* A lookup result that is no id.
Absent(value) == value \in {Null, Undefined}

\* Log entry w is op(s, p, e).
IsWrite(w, op, s, p, e) ==
    w.op = op /\ w.integrationId = s /\ w.botmaticId = p /\ w.extId = e

\* The last completed write, when writes is not empty.
LastWrite == writes[Len(writes)]

(***************************************************************************)
(* C1.  For non-empty scope s, primary id p and external id e: when both   *)
(* backend sets succeed, save(s,p,e) returns true, and as long as no other *)
(* write comes in between, a lookup of p in s that the backend answers     *)
(* returns e and a lookup of e in s returns p.                             *)
(***************************************************************************)
C1_SaveThenLookups ==
    \A c \in Clients :
       LET cl == call[c] IN
       /\ Returned(c, "saveIds") /\ NoError(cl) => cl.ret = TRUE
       /\ ( /\ Returned(c, "getExtId") /\ ~cl.reply1.err
            /\ writes # << >>
            /\ LastWrite.op = "saveIds" /\ LastWrite.ret = TRUE
            /\ LastWrite.integrationId = cl.integrationId
            /\ LastWrite.botmaticId = cl.botmaticId )
          => cl.ret = LastWrite.extId
       /\ ( /\ Returned(c, "getBotmaticId") /\ ~cl.reply1.err
            /\ writes # << >>
            /\ LastWrite.op = "saveIds" /\ LastWrite.ret = TRUE
            /\ LastWrite.integrationId = cl.integrationId
            /\ LastWrite.extId = cl.extId )
          => cl.ret = LastWrite.botmaticId

\* A reverse lookup right after a successful save of two different ids.
C1_Witness ==
    \E c \in Clients :
       /\ Returned(c, "getBotmaticId") /\ ~call[c].reply1.err
       /\ writes # << >>
       /\ LastWrite.op = "saveIds" /\ LastWrite.ret = TRUE
       /\ LastWrite.integrationId = call[c].integrationId
       /\ LastWrite.extId = call[c].extId
       /\ LastWrite.botmaticId # LastWrite.extId
       /\ call[c].ret = LastWrite.botmaticId

(***************************************************************************)
(* C2.  Round trip: deletePair(s,p,e) right after a successful save(s,p,e) *)
(* returns true when the backend answers both deletes, removes both        *)
(* entries, and every lookup of p or of e in s that follows, before any    *)
(* other write, returns absent.                                            *)
(***************************************************************************)
C2_SaveDeleteRoundTrip ==
    \A c \in Clients :
       LET cl == call[c] IN
       /\ ( /\ Returned(c, "deleteIds") /\ NoError(cl)
            /\ Len(writes) = 2
            /\ IsWrite(writes[1], "saveIds", cl.integrationId, cl.botmaticId, cl.extId)
            /\ writes[1].ret = TRUE )
          => /\ cl.ret = TRUE
             /\ cl.botmaticKey \notin DOMAIN storage
             /\ cl.externalKey \notin DOMAIN storage
       /\ ( /\ Len(writes) = 2
            /\ writes[1].op = "saveIds" /\ writes[1].ret = TRUE
            /\ IsWrite(writes[2], "deleteIds", writes[1].integrationId,
                       writes[1].botmaticId, writes[1].extId)
            /\ writes[2].ret = TRUE
            /\ cl.integrationId = writes[1].integrationId
            /\ \/ Returned(c, "getExtId") /\ cl.botmaticId = writes[1].botmaticId
               \/ Returned(c, "getBotmaticId") /\ cl.extId = writes[1].extId )
          => Absent(cl.ret)

\* A lookup after a save and the delete of the same pair.
C2_Witness ==
    \E c \in Clients :
       /\ Returned(c, "getBotmaticId")
       /\ Len(writes) = 2
       /\ writes[1].op = "saveIds" /\ writes[1].ret = TRUE
       /\ IsWrite(writes[2], "deleteIds", writes[1].integrationId,
                  writes[1].botmaticId, writes[1].extId)
       /\ writes[2].ret = TRUE
       /\ call[c].integrationId = writes[1].integrationId
       /\ call[c].extId = writes[1].extId
       /\ call[c].ret = Null

(***************************************************************************)
(* C3.  deleteAllForScope(s) that the backend answers removes every key    *)
(* of scope s, and leaves every key of any other scope s' that is not also *)
(* a key of s as it was, also when s' is s followed by the delimiter and   *)
(* more text.                                                              *)
(***************************************************************************)
\* The keys the store builds for a scope.
KeysOfScope(s) ==
    {buildBotmaticKey(s, id) : id \in Ids} \cup {buildExternalKey(s, id) : id \in Ids}

\* The scan of a deleteAllIds was answered, and the bulk delete too (DEL of
\* an empty key list is always answered with an error).
DeleteAllAnswered(cl) == ~cl.reply1.err /\ (cl.reply2.err => cl.keys = {})

C3_DeleteAllStaysInScope ==
    \A c \in Clients :
       LET cl == call[c] IN
       Returned(c, "deleteAllIds") /\ DeleteAllAnswered(cl)
       => /\ \A k \in KeysOfScope(cl.integrationId) : k \notin DOMAIN storage
          /\ \A s \in Scopes \ {cl.integrationId} :
                \A k \in KeysOfScope(s) \ KeysOfScope(cl.integrationId) :
                   RedisGet(storage, k) = RedisGet(cl.pre, k)

(***************************************************************************)
(* C4.  The key encoding is injective over (scope, direction, id): two     *)
(* calls that encode different triples never hold the same key.            *)
(***************************************************************************)
\* The (scope, direction, id) triples a call has encoded, with their keys.
Encoded(cl) ==
    (IF cl.botmaticKey # << >>
     THEN {[triple |-> <<cl.integrationId, "b", cl.botmaticId>>, key |-> cl.botmaticKey]}
     ELSE {})
    \cup
    (IF cl.externalKey # << >>
     THEN {[triple |-> <<cl.integrationId, "e", cl.extId>>, key |-> cl.externalKey]}
     ELSE {})

C4_KeyEncodingInjective ==
    \A c1, c2 \in Clients :
       \A x \in Encoded(call[c1]), y \in Encoded(call[c2]) :
          x.triple # y.triple => x.key # y.key

(***************************************************************************)
(* C5.  save returns true if and only if both backend sets, the forward    *)
(* and the reverse one, report success; if either answers with an error,   *)
(* save returns false.                                                     *)
(***************************************************************************)
C5_SaveTrueIffBothSets ==
    \A c \in Clients :
       Returned(c, "saveIds")
       => (call[c].ret = TRUE
             <=> call[c].reply1 = Reply(FALSE, OK) /\ call[c].reply2 = Reply(FALSE, OK))

\* A save whose first set failed and whose second set succeeded.
C5_Witness ==
    \E c \in Clients :
       /\ Returned(c, "saveIds")
       /\ call[c].reply1.err /\ call[c].reply2 = Reply(FALSE, OK)
       /\ call[c].ret = FALSE

(***************************************************************************)
(* C6.  deletePair returns true only if both backend deletes each report   *)
(* at least one key removed; when exactly one of the two keys existed it   *)
(* returns false, and the key that existed is gone once its delete was     *)
(* answered.                                                               *)
(***************************************************************************)
C6_DeletePartial ==
    \A c \in Clients :
       LET cl == call[c] IN
       Returned(c, "deleteIds")
       => /\ cl.ret = TRUE
             => /\ ~cl.reply1.err /\ cl.reply1.value >= 1
                /\ ~cl.reply2.err /\ cl.reply2.value >= 1
          /\ (cl.botmaticKey \in DOMAIN cl.pre) # (cl.externalKey \in DOMAIN cl.pre)
             => /\ cl.ret = FALSE
                /\ cl.botmaticKey \in DOMAIN cl.pre /\ ~cl.reply1.err
                   => cl.botmaticKey \notin DOMAIN storage
                /\ cl.externalKey \in DOMAIN cl.pre /\ ~cl.reply2.err
                   => cl.externalKey \notin DOMAIN storage

\* Only the reverse entry existed; the delete removed it and returned false.
C6_Witness ==
    \E c \in Clients :
       /\ Returned(c, "deleteIds")
       /\ call[c].botmaticKey \notin DOMAIN call[c].pre
       /\ call[c].externalKey \in DOMAIN call[c].pre
       /\ call[c].externalKey \notin DOMAIN storage
       /\ call[c].ret = FALSE

(***************************************************************************)
(* C7.  deletePair(s,p,e) on a pair of which neither the forward nor the   *)
(* reverse key exists returns false and leaves the backend as it was.      *)
(***************************************************************************)
C7_DeleteMissingPair ==
    \A c \in Clients :
       LET cl == call[c] IN
       ( /\ Returned(c, "deleteIds")
         /\ cl.botmaticKey \notin DOMAIN cl.pre
         /\ cl.externalKey \notin DOMAIN cl.pre )
       => cl.ret = FALSE /\ storage = cl.pre

\* A delete of a pair that is not stored, in a backend that holds others.
C7_Witness ==
    \E c \in Clients :
       /\ Returned(c, "deleteIds") /\ NoError(call[c])
       /\ call[c].botmaticKey \notin DOMAIN call[c].pre
       /\ call[c].externalKey \notin DOMAIN call[c].pre
       /\ DOMAIN call[c].pre # {}
       /\ call[c].ret = FALSE

(***************************************************************************)
(* C8.  Scope isolation: a lookup in scope A never returns an id that no   *)
(* save under scope A was given, whatever saves under another scope B run  *)
(* before it or at the same time.                                          *)
(***************************************************************************)
\* The ids given to the saves under scope s that have started.
SavedUnder(s) ==
    LET saves == {call[c] : c \in Clients} \cup {writes[i] : i \in 1..Len(writes)}
    IN  UNION {{w.botmaticId, w.extId} : w \in {x \in saves : x.op = "saveIds"
                                                         /\ x.integrationId = s}}

C8_ScopeIsolation ==
    \A c \in Clients :
       ( /\ Returned(c, "getExtId") \/ Returned(c, "getBotmaticId")
         /\ ~Absent(call[c].ret) )
       => call[c].ret \in SavedUnder(call[c].integrationId)

(***************************************************************************)
(* C9.  save with an empty scope, primaryId or externalId returns false,   *)
(* and issues no backend set.                                              *)
(***************************************************************************)
C9_SaveEmptyArgument ==
    \A c \in Clients :
       LET cl == call[c] IN
       ( /\ Returned(c, "saveIds")
         /\ << >> \in {cl.integrationId, cl.botmaticId, cl.extId} )
       => /\ cl.ret = FALSE
          /\ cl.reply1 = NoReply /\ cl.reply2 = NoReply
          /\ storage = cl.pre

C11_BulkDeleteErrorReported ==
    \A c \in Clients :
       LET cl == call[c] IN
       ( /\ Returned(c, "deleteAllIds")
         /\ ~cl.reply1.err /\ cl.keys # {} /\ cl.reply2.err )
       => cl.ret = FALSE

(***************************************************************************)
(* C12.  No rollback on a partial write: when one of the two backend sets  *)
(* of save succeeds and the other fails, save returns false and the entry  *)
(* that was written stays; when neither entry existed before, exactly one  *)
(* of the two exists afterwards.                                           *)
(***************************************************************************)
C12_NoRollback ==
    \A c \in Clients :
       LET cl == call[c] IN
       ( Returned(c, "saveIds") /\ cl.reply1.err # cl.reply2.err )
       => /\ cl.ret = FALSE
          /\ ~cl.reply1.err => RedisGet(storage, cl.botmaticKey) = cl.extId
          /\ ~cl.reply2.err => RedisGet(storage, cl.externalKey) = cl.botmaticId
          /\ ( /\ cl.botmaticKey \notin DOMAIN cl.pre
               /\ cl.externalKey \notin DOMAIN cl.pre )
             => (cl.botmaticKey \in DOMAIN storage) # (cl.externalKey \in DOMAIN storage)

\* A save into an empty backend whose second set failed: the forward entry
\* is there, the reverse one is not.
C12_Witness ==
    \E c \in Clients :
       /\ Returned(c, "saveIds")
       /\ ~call[c].reply1.err /\ call[c].reply2.err
       /\ call[c].botmaticKey \notin DOMAIN call[c].pre
       /\ call[c].externalKey \notin DOMAIN call[c].pre
       /\ call[c].botmaticKey \in DOMAIN storage
       /\ call[c].externalKey \notin DOMAIN storage
       /\ call[c].ret = FALSE

(***************************************************************************)
(* C13.  The two-key write is observable half done: no mutual exclusion    *)
(* keeps a lookup from being answered while a save or a deletePair of      *)
(* another caller is between its two backend calls, so a lookup can see    *)
(* the forward entry written and the reverse entry still absent.           *)
(***************************************************************************)
\* Caller w is between the two backend calls of a save or a deletePair.
HalfDone(w) == call[w].pc \in {"set2", "del2"}

SavedDuringDeleteAll(d, s) ==
    /\ Returned(d, "deleteAllIds") /\ ~call[d].reply1.err
    /\ Returned(s, "saveIds") /\ call[s].ret = TRUE
    /\ call[s].integrationId = call[d].integrationId
    /\ Len(writes) = 2
    /\ writes[1] = WriteEntry(call[s])
    /\ writes[2] = WriteEntry(call[d])
    /\ call[s].botmaticKey \notin call[d].keys
    /\ call[s].externalKey \notin call[d].keys

AllReplied(cl) ==
    CASE cl.op \in {"saveIds", "deleteIds"} ->
            cl.reply1 # NoReply /\ cl.reply2 # NoReply
      [] cl.op \in {"getBotmaticId", "getExtId"} -> cl.reply1 # NoReply
      [] cl.op = "deleteAllIds" ->
            cl.reply1 # NoReply /\ (cl.reply1.err \/ cl.reply2 # NoReply)
      [] OTHER -> FALSE

InCall(c) == call[c].pc \notin {"idle", "done"}

C16_ResolvesAfterCalls ==
    /\ [](\A c \in Clients : call[c].pc = "done" => AllReplied(call[c]))
    /\ [][\A c \in Clients :
             call[c].pc = "done" /\ call'[c].pc = "done" => call'[c] = call[c]]_vars
    /\ \A c \in Clients : InCall(c) ~> (call[c].pc = "done")

\* Both clients have returned, one from a deleteAllIds that issued both of
\* its commands, the other from a save.
C16_Witness ==
    \E c, d \in Clients :
       /\ Returned(c, "deleteAllIds") /\ ~call[c].reply1.err
       /\ call[c].reply2 # NoReply
       /\ Returned(d, "saveIds") /\ AllReplied(call[d])

(***************************************************************************)
(* C17.  saveIds is idempotent: saving a pair whose two entries are stored *)
(* already leaves the database as it was, and returns true again when      *)
(* both sets answer without error.                                         *)
(***************************************************************************)
\* Both entries of the pair of call cl were stored when it was invoked.
StoredBefore(cl) ==
    /\ RedisGet(cl.pre, cl.botmaticKey) = cl.extId
    /\ RedisGet(cl.pre, cl.externalKey) = cl.botmaticId

C17_SaveIdempotent ==
    \A c \in Clients :
       LET cl == call[c] IN
       Returned(c, "saveIds") /\ StoredBefore(cl)
       => /\ storage = cl.pre
          /\ NoError(cl) => cl.ret = TRUE

\* The same pair saved twice in a row, true both times.
C17_Witness ==
    \E c \in Clients :
       /\ Returned(c, "saveIds") /\ StoredBefore(call[c])
       /\ call[c].ret = TRUE
       /\ writes = <<WriteEntry(call[c]), WriteEntry(call[c])>>

(***************************************************************************)
(* C18.  In every quiescent state reached by non-overlapping saveIds and   *)
(* deleteIds calls that all returned true, in which per integration id a   *)
(* botmatic id goes with one external id only and the reverse, the entry   *)
(* botmaticId -> extId exists if and only if the entry extId -> botmaticId *)
(* of the same integration id exists.                                      *)
(***************************************************************************)
\* All the calls so far are in the log of writes, are saves and deletes of
\* pairs that returned true, and pair the ids one to one per integration id.
HealthyHistory ==
    /\ Quiescent
    /\ ncalls = Len(writes)
    /\ \A i \in 1..Len(writes) :
          writes[i].op \in {"saveIds", "deleteIds"} /\ writes[i].ret = TRUE
    /\ \A i, j \in 1..Len(writes) :
          writes[i].integrationId = writes[j].integrationId
          => (writes[i].botmaticId = writes[j].botmaticId
              <=> writes[i].extId = writes[j].extId)

C18_EntriesConsistent ==
    HealthyHistory
    => \A s \in Scopes, p \in Ids, e \in Ids :
          RedisGet(storage, buildBotmaticKey(s, p)) = e
          <=> RedisGet(storage, buildExternalKey(s, e)) = p

(***************************************************************************)
(* C19.  Within one saveIds (and one deleteIds) the two Redis commands are *)
(* strictly ordered and unconditional: the command on the external key is  *)
(* issued only after the one on the botmatic key has completed, and also   *)
(* when that one failed; a failing save can leave the forward entry alone  *)
(* or the reverse entry alone.                                             *)
(***************************************************************************)
C19_SequentialCommands ==
    \A c \in Clients :
       LET cl == call[c]
           forward(db) == RedisGet(db, cl.botmaticKey)
           reverse(db) == RedisGet(db, cl.externalKey)
       IN
       /\ cl.pc \in {"set1", "del1"}
          => cl.reply1 = NoReply /\ cl.reply2 = NoReply /\ storage = cl.pre
       /\ cl.pc \in {"set2", "del2"}
          => /\ cl.reply1 # NoReply /\ cl.reply2 = NoReply
             /\ reverse(storage) = reverse(cl.pre)
       /\ Returned(c, "saveIds") \/ Returned(c, "deleteIds")
          => cl.reply1 # NoReply /\ cl.reply2 # NoReply
       /\ Returned(c, "saveIds") /\ cl.reply1.err /\ ~cl.reply2.err
          => reverse(storage) = cl.botmaticId /\ forward(storage) = forward(cl.pre)
       /\ Returned(c, "saveIds") /\ ~cl.reply1.err /\ cl.reply2.err
          => forward(storage) = cl.extId /\ reverse(storage) = reverse(cl.pre)
       /\ Returned(c, "deleteIds") /\ cl.reply1.err /\ ~cl.reply2.err
          => reverse(storage) = Null /\ forward(storage) = forward(cl.pre)

\* A save whose first set failed wrote the reverse entry alone.
C19_Witness ==
    \E c \in Clients :
       /\ Returned(c, "saveIds")
       /\ call[c].reply1.err /\ ~call[c].reply2.err
       /\ call[c].botmaticKey \notin DOMAIN storage
       /\ RedisGet(storage, call[c].externalKey) = call[c].botmaticId

(***************************************************************************)
(* C20.  saveIds never removes a superseded entry: after saveIds(s, p, e1) *)
(* and then saveIds(s, p, e2) both returned true, e1 # e2, getExtId(s, p)  *)
(* returns e2 while getBotmaticId(s, e1) still returns p: the reverse      *)
(* entry of e1 stays, and its forward counterpart no longer points to it.  *)
(***************************************************************************)
\* The last two writes are saves of one botmatic id of one integration id
\* with two external ids, both returned true; nothing is in progress.
Superseded ==
    /\ Quiescent
    /\ Len(writes) = 2
    /\ writes[1].op = "saveIds" /\ writes[1].ret = TRUE
    /\ writes[2].op = "saveIds" /\ writes[2].ret = TRUE
    /\ writes[1].integrationId = writes[2].integrationId
    /\ writes[1].botmaticId = writes[2].botmaticId
    /\ writes[1].extId # writes[2].extId

C20_StaleReverseEntry ==
    Superseded
    => LET s == writes[2].integrationId
           p == writes[2].botmaticId
           e1 == writes[1].extId
           e2 == writes[2].extId
       IN  /\ RedisGet(storage, buildBotmaticKey(s, p)) = e2
           /\ RedisGet(storage, buildExternalKey(s, e1)) = p
           /\ \A c \in Clients :
                 LET cl == call[c] IN
                 /\ ( /\ Returned(c, "getExtId") /\ ~cl.reply1.err
                      /\ cl.integrationId = s /\ cl.botmaticId = p )
                    => cl.ret = e2
                 /\ ( /\ Returned(c, "getBotmaticId") /\ ~cl.reply1.err
                      /\ cl.integrationId = s /\ cl.extId = e1 )
                    => cl.ret = p

\* The lookup by the superseded external id has returned the botmatic id,
\* whose forward entry holds the other external id.
C20_Witness ==
    /\ Superseded
    /\ \E c \in Clients :
          /\ Returned(c, "getBotmaticId")
          /\ call[c].integrationId = writes[1].integrationId
          /\ call[c].extId = writes[1].extId
          /\ call[c].ret = writes[1].botmaticId
          /\ RedisGet(storage, buildBotmaticKey(call[c].integrationId, call[c].ret))
                # call[c].extId

====
